---- MODULE Spec2Model ----
(***************************************************************************)
(* Model of the ai-ticket-agent service: the tiered ticket classifier of   *)
(* llm.py (keyword heuristic, reply normalizer, local and remote tiers)    *)
(* and the Slack handlers of main.py (the /ticket command with its         *)
(* detached background unit, the approve/reject action handler).           *)
(*                                                                         *)
(* Python strings are sequences of one-character strings, so that          *)
(* lower(), strip(), split(), splitlines() and the substring test `in`     *)
(* are computed as Python computes them.  Values that are not str are the  *)
(* marker tuples PyNone and PyObject.                                      *)
(***************************************************************************)
EXTENDS Naturals, Sequences, FiniteSets, TLC

VARIABLES
    GGML_MODEL_PATH,  \* llm.py:10  TRUE iff the environment sets a model path
    OPENAI_API_KEY,   \* llm.py:9   TRUE iff the environment sets an API key
    probe,            \* the call of a classifier function under examination
    store,            \* the committed rows of table ticket_logs, in id order
    jira,             \* the number of issues the issue tracker has created
    sent,             \* per channel, the send_message requests made, in order
    cmd,              \* the /ticket commands and their background units
    act,              \* the invocations of the action handler
    qry               \* the /ticket_status and unknown commands

----------------------------------------------------------------------------
(* Bounds of the model *)

\* /ticket commands received
MaxTickets == 2

\* interaction payloads received
MaxActions == 2

\* fragments per ticket text given to the keyword heuristic
MaxTextFrags == 2

\* fragments per ticket text given to the normalizer and to classify_ticket
MaxOriginalFrags == 1

\* fragments per model reply given to the normalizer
MaxReplyFrags == 2

\* the /ticket_status and unknown commands received
MaxQueries == 2

----------------------------------------------------------------------------
(* Python str operations *)

NL == "\n"

PyNone == <<"None">>

PyObject == <<"object">>

IsStr(v) == v # PyNone /\ v # PyObject

\* Python truthiness of a str-or-None value: None and "" are falsy
Truthy(v) == v # PyNone /\ v # <<>>

Whitespace == {" ", NL, "\t", "\r"}

LineBreaks == {NL, "\r"}

UpperCase == <<"A","B","C","D","E","F","G","H","I","J","K","L","M",
               "N","O","P","Q","R","S","T","U","V","W","X","Y","Z">>

LowerCase == <<"a","b","c","d","e","f","g","h","i","j","k","l","m",
               "n","o","p","q","r","s","t","u","v","w","x","y","z">>

LowerChar(c) ==
    IF \E i \in 1..Len(UpperCase) : UpperCase[i] = c
    THEN LowerCase[CHOOSE i \in 1..Len(UpperCase) : UpperCase[i] = c]
    ELSE c

\* str.lower()
lower(s) == [i \in 1..Len(s) |-> LowerChar(s[i])]

\* the substring test `w in t`
Contains(w, t) ==
    \/ w = <<>>
    \/ \E i \in 1..(Len(t) - Len(w) + 1) :
          t[i] = w[1] /\ SubSeq(t, i, i + Len(w) - 1) = w

\* any(w in t for w in words)
any_in(words, t) == \E k \in 1..Len(words) : Contains(words[k], t)

\* str.strip()
strip(s) ==
    LET solid == {i \in 1..Len(s) : s[i] \notin Whitespace}
    IN  IF solid = {} THEN <<>>
        ELSE SubSeq(s, CHOOSE i \in solid : \A j \in solid : i <= j,
                       CHOOSE i \in solid : \A j \in solid : j <= i)

\* the pieces of s between the characters of seps, empty pieces included:
\* acc holds the finished pieces, cur the piece being read
RECURSIVE PiecesFrom(_, _, _, _, _)
PiecesFrom(s, seps, i, cur, acc) ==
    IF i > Len(s) THEN Append(acc, cur)
    ELSE IF s[i] \in seps THEN PiecesFrom(s, seps, i + 1, <<>>, Append(acc, cur))
    ELSE PiecesFrom(s, seps, i + 1, Append(cur, s[i]), acc)

Pieces(s, seps) == PiecesFrom(s, seps, 1, <<>>, <<>>)

\* str.splitlines(): no final empty line after a trailing line break
splitlines(s) ==
    LET p == Pieces(s, LineBreaks)
    IN  IF p[Len(p)] = <<>> THEN SubSeq(p, 1, Len(p) - 1) ELSE p

\* str.split(): the maximal runs of non-whitespace characters
split(s) == SelectSeq(Pieces(s, Whitespace), LAMBDA p : p # <<>>)

----------------------------------------------------------------------------
(* llm.py: labels and keyword tables *)

LABELS == <<"Task", "Bug", "Incident", "Feature Request", "Question">>

LabelSet == {LABELS[i] : i \in 1..Len(LABELS)}

\* the characters of each label of LABELS, in the same order
LabelChars ==
  <<
    <<"T","a","s","k">>,
    <<"B","u","g">>,
    <<"I","n","c","i","d","e","n","t">>,
    <<"F","e","a","t","u","r","e"," ","R","e","q","u","e","s","t">>,
    <<"Q","u","e","s","t","i","o","n">>
  >>

bug_words ==
  <<
    <<"c","r","a","s","h">>,
    <<"c","r","a","s","h","e","s">>,
    <<"c","r","a","s","h","e","d">>,
    <<"e","x","c","e","p","t","i","o","n">>,
    <<"s","t","a","c","k"," ","t","r","a","c","e">>,
    <<"n","u","l","l","p","o","i","n","t","e","r">>,
    <<"s","e","g","f","a","u","l","t">>,
    <<"e","r","r","o","r">>,
    <<"f","a","i","l">>,
    <<"f","a","i","l","e","d">>,
    <<"n","o","t"," ","w","o","r","k","i","n","g">>,
    <<"d","o","e","s","n","'","t"," ","w","o","r","k">>,
    <<"d","o","e","s","n","t"," ","w","o","r","k">>,
    <<"b","r","o","k","e","n">>,
    <<"l","o","g","i","n"," ","f","a","i","l","e","d">>,
    <<"l","o","g","i","n"," ","e","r","r","o","r">>,
    <<"c","a","n","n","o","t"," ","l","o","g","i","n">>,
    <<"c","a","n","'","t"," ","l","o","g","i","n">>,
    <<"c","a","n","t"," ","l","o","g","i","n">>,
    <<"u","n","a","b","l","e"," ","t","o"," ","l","o","g","i","n">>,
    <<"a","u","t","h","e","n","t","i","c","a","t","i","o","n">>,
    <<"a","u","t","h">>,
    <<"s","i","g","n"," ","i","n">>,
    <<"s","i","g","n","i","n">>,
    <<"l","o","g","i","n"," ","p","a","g","e">>
  >>

incident_words ==
  <<
    <<"o","u","t","a","g","e">>,
    <<"d","o","w","n">>,
    <<"u","n","a","v","a","i","l","a","b","l","e">>,
    <<"s","e","r","v","i","c","e"," ","i","s"," ","d","o","w","n">>,
    <<"c","a","n","n","o","t">>,
    <<"u","n","a","b","l","e"," ","t","o">>,
    <<"t","i","m","e","o","u","t">>,
    <<"i","n","c","i","d","e","n","t">>
  >>

feature_words ==
  <<
    <<"f","e","a","t","u","r","e">>,
    <<"e","n","h","a","n","c","e","m","e","n","t">>,
    <<"r","e","q","u","e","s","t">>,
    <<"a","d","d">>,
    <<"s","u","p","p","o","r","t">>,
    <<"i","m","p","r","o","v","e">>,
    <<"i","m","p","r","o","v","e","m","e","n","t">>
  >>

question_words ==
  <<
    <<"h","o","w"," ","d","o">>,
    <<"h","o","w"," ","t","o">>,
    <<"w","h","y">>,
    <<"w","h","a","t"," ","i","s">>,
    <<"q","u","e","s","t","i","o","n">>,
    <<"h","e","l","p">>,
    <<"c","a","n"," ","i">>
  >>

reply_bug_keys ==
  <<
    <<"c","r","a","s","h">>,
    <<"e","x","c","e","p","t","i","o","n">>,
    <<"e","r","r","o","r">>,
    <<"f","a","i","l">>,
    <<"f","a","i","l","e","d">>,
    <<"s","t","a","c","k"," ","t","r","a","c","e">>
  >>

reply_incident_keys ==
  <<
    <<"o","u","t","a","g","e">>,
    <<"d","o","w","n">>,
    <<"u","n","a","v","a","i","l","a","b","l","e">>,
    <<"s","e","r","v","i","c","e"," ","i","s"," ","d","o","w","n">>,
    <<"o","u","t","a","g","e">>
  >>

reply_feature_keys ==
  <<
    <<"f","e","a","t","u","r","e"," ","r","e","q","u","e","s","t">>,
    <<"f","e","a","t","u","r","e">>,
    <<"e","n","h","a","n","c","e","m","e","n","t">>,
    <<"r","e","q","u","e","s","t">>,
    <<"i","m","p","r","o","v","e">>
  >>

reply_question_keys ==
  <<
    <<"h","o","w">>,
    <<"w","h","y">>,
    <<"w","h","a","t">>,
    <<"h","e","l","p">>,
    <<"q","u","e","s","t","i","o","n">>
  >>

----------------------------------------------------------------------------
(* llm.py: the keyword heuristic and the reply normalizer *)

\* keyword_label with the feature table consulted before the bug table
keyword_label_feature_first(t) ==
    IF any_in(feature_words, t) THEN "Feature Request"
    ELSE IF any_in(bug_words, t) THEN "Bug"
    ELSE IF any_in(incident_words, t) THEN "Incident"
    ELSE IF any_in(question_words, t) THEN "Question"
    ELSE "Task"

\* lines 31-39: the keyword tables in their fixed order, over the lower-cased text
keyword_label(t) ==
    IF any_in(bug_words, t) THEN "Bug"
    ELSE IF any_in(incident_words, t) THEN "Incident"
    ELSE IF any_in(feature_words, t) THEN "Feature Request"
    ELSE IF any_in(question_words, t) THEN "Question"
    ELSE "Task"

_heuristic_label_from_text(text) ==
    IF ~Truthy(text) THEN "Task" ELSE keyword_label(lower(text))

\* lines 52-53: the first non-empty stripped line, else the stripped reply
first_line(reply) ==
    LET all == splitlines(reply)
        lines == SelectSeq([i \in 1..Len(all) |-> strip(all[i])],
                           LAMBDA ln : ln # <<>>)
    IN  IF lines # <<>> THEN lines[1] ELSE strip(reply)

\* lines 60-70: the body of the loop over LABELS, for the label at index i;
\* low_r is r.strip().lower() and r_tokens is r.lower().split()
label_accepts(i, low_r, r_tokens) ==
    LET lbl_tokens == split(lower(LabelChars[i]))
    IN  /\ r_tokens # <<>>
        /\ \/ low_r = lower(LabelChars[i])
           \/ /\ Len(r_tokens) >= Len(lbl_tokens)
              /\ SubSeq(r_tokens, 1, Len(lbl_tokens)) = lbl_tokens

\* lines 59-70: the first label of LABELS the loop returns, "" when it returns none
label_loop(low_r, r_tokens) ==
    LET hits == {i \in 1..Len(LABELS) : label_accepts(i, low_r, r_tokens)}
    IN  IF hits = {} THEN ""
        ELSE LABELS[CHOOSE i \in hits : \A j \in hits : i <= j]

\* lines 76-79: the heuristic over the original text, "" unless it is not Task
text_evidence(original_text, h) ==
    IF Truthy(original_text) /\ h # "Task" THEN h ELSE ""

\* lines 82-90: the keyword scan of the lower-cased first line, "" when none hits
reply_scan(low_r) ==
    IF any_in(reply_bug_keys, low_r) THEN "Bug"
    ELSE IF any_in(reply_incident_keys, low_r) THEN "Incident"
    ELSE IF any_in(reply_feature_keys, low_r) THEN "Feature Request"
    ELSE IF any_in(reply_question_keys, low_r) THEN "Question"
    ELSE ""

\* a, unless that step of the function returned nothing; then b
or_else(a, b) == IF a # "" THEN a ELSE b

\* normalize_line with the reply's keywords consulted before the original text
normalize_line_scan_first(r, original_text) ==
    or_else(label_loop(lower(strip(r)), split(lower(r))),
      or_else(reply_scan(lower(r)),
              _heuristic_label_from_text(original_text)))

\* lines 59-93, for the first line r of the reply
normalize_line(r, original_text) ==
    or_else(label_loop(lower(strip(r)), split(lower(r))),
      or_else(text_evidence(original_text, _heuristic_label_from_text(original_text)),
        or_else(reply_scan(lower(r)),
                _heuristic_label_from_text(original_text))))

_normalize_label(reply, original_text) ==
    IF ~Truthy(reply) \/ ~IsStr(reply)
    THEN _heuristic_label_from_text(original_text)
    ELSE normalize_line(first_line(reply), original_text)

----------------------------------------------------------------------------
(* llm.py: the two inference tiers and classify_ticket.  What a tier's      *)
(* resource does is an input: a record [kind, reply].                      *)

\* the result of a call that raises instead of returning
Raised == "raise"

NoTier == [kind |-> "unused", reply |-> PyNone]

Outcome(kind) == [kind |-> kind, reply |-> PyNone]

\* _classify_with_openai without the try/except around the request
_classify_with_openai_unguarded(text, o) ==
    IF ~OPENAI_API_KEY THEN "Task"
    ELSE IF ~IsStr(text) THEN Raised
    ELSE IF o.kind = "transport" THEN Raised
    ELSE IF o.kind \in {"401", "badjson", "badshape"} THEN "Task"
    ELSE _normalize_label(strip(o.reply), text)

_classify_with_openai(text, o) ==
    IF ~OPENAI_API_KEY THEN "Task"
    ELSE IF ~IsStr(text) THEN Raised              \* line 105: text.strip()
    ELSE IF o.kind = "transport" THEN "Task"      \* lines 121-126
    ELSE IF o.kind = "401" THEN "Task"            \* lines 128-130
    ELSE IF o.kind = "badjson" THEN "Task"        \* lines 132-136
    ELSE IF o.kind = "badshape" THEN "Task"       \* lines 138-142
    ELSE _normalize_label(strip(o.reply), text)

_classify_with_ggml(text, g) ==
    IF ~GGML_MODEL_PATH THEN "Task"
    ELSE IF g.kind = "missing" THEN "Task"        \* lines 151-154
    ELSE IF g.kind = "noimport" THEN "Task"       \* lines 156-160
    ELSE IF ~IsStr(text) THEN Raised              \* line 165: text.strip()
    ELSE IF g.kind = "error" THEN "Task"          \* lines 246-250
    ELSE _normalize_label(g.reply, text)

\* classify_ticket asking the remote tier whatever the local tier said
classify_ticket_remote_always(text, g, o) ==
    LET local == IF GGML_MODEL_PATH THEN <<_classify_with_ggml(text, g)>> ELSE <<>>
        tried == IF GGML_MODEL_PATH THEN <<"ggml">> ELSE <<>>
    IN  IF OPENAI_API_KEY
        THEN [label |-> _classify_with_openai(text, o), called |-> tried \o <<"openai">>]
        ELSE IF local # <<>> /\ local[1] # "Task"
        THEN [label |-> local[1], called |-> tried]
        ELSE [label |-> "Task", called |-> tried]

\* classify_ticket ending with the keyword heuristic instead of "Task"
classify_ticket_heuristic_default(text, g, o) ==
    LET local == IF GGML_MODEL_PATH THEN <<_classify_with_ggml(text, g)>> ELSE <<>>
        tried == IF GGML_MODEL_PATH THEN <<"ggml">> ELSE <<>>
    IN  IF local # <<>> /\ local[1] # "Task"
        THEN [label |-> local[1], called |-> tried]
        ELSE IF OPENAI_API_KEY
        THEN [label |-> _classify_with_openai(text, o), called |-> tried \o <<"openai">>]
        ELSE [label |-> _heuristic_label_from_text(text), called |-> tried]

\* the label returned (or Raised) and the tiers called, in call order
classify_ticket(text, g, o) ==
    LET local == IF GGML_MODEL_PATH THEN <<_classify_with_ggml(text, g)>> ELSE <<>>
        tried == IF GGML_MODEL_PATH THEN <<"ggml">> ELSE <<>>
    IN  IF local # <<>> /\ local[1] # "Task"
        THEN [label |-> local[1], called |-> tried]
        ELSE IF OPENAI_API_KEY
        THEN [label |-> _classify_with_openai(text, o), called |-> tried \o <<"openai">>]
        ELSE [label |-> "Task", called |-> tried]

----------------------------------------------------------------------------
(* Inputs of the classifier functions *)

TextFrags ==
  <<
    <<"M","y"," ","a","p","p"," ","c","r","a","s","h","e","s"," ","o","n"," ","s","t","a","r","t","u","p">>,
    <<"n","e","w"," ","f","e","a","t","u","r","e">>,
    <<"s","i","t","e"," ","i","s"," ","d","o","w","n">>,
    <<"H","o","w"," ","d","o"," ","I">>,
    <<"u","p","d","a","t","e"," ","d","o","c","s">>
  >>

ReplyFrags ==
  <<
    <<"B","u","g">>,
    <<"B","u","g",":">>,
    <<"F","e","a","t","u","r","e"," ","R","e","q","u","e","s","t",":">>,
    <<"f","e","a","t","u","r","e"," ","r","e","q","u","e","s","t">>,
    <<"a","p","p"," ","w","o","n","'","t"," ","s","t","a","r","t">>,
    <<"n","e","e","d","s"," ","a"," ","d","r","o","p","d","o","w","n">>,
    <<NL>>
  >>

TierReplies ==
  <<
    <<>>,
    <<"B","u","g">>,
    <<"T","a","s","k">>,
    <<" "," ","q","u","e","s","t","i","o","n",NL>>,
    <<"F","e","a","t","u","r","e"," ","R","e","q","u","e","s","t",":"," ","n","e","e","d","s"," ","a"," ","d","r","o","p","d","o","w","n">>,
    <<"I"," ","t","h","i","n","k"," ","i","t"," ","i","s"," ","a"," ","f","e","a","t","u","r","e">>
  >>

\* the strings made of at most n fragments joined by single spaces
RECURSIVE Sentences(_, _)
Sentences(frags, n) ==
    IF n = 0 THEN {<<>>}
    ELSE LET shorter == Sentences(frags, n - 1)
         IN  shorter \cup
             {(IF s = <<>> THEN <<>> ELSE s \o <<" ">>) \o frags[i] :
                 s \in shorter, i \in 1..Len(frags)}

Texts == Sentences(TextFrags, MaxTextFrags)

OriginalTexts == Sentences(TextFrags, MaxOriginalFrags)

Replies == Sentences(ReplyFrags, MaxReplyFrags)

\* run_sync returns a truthy value or None (lines 222-244)
GgmlOutcomes ==
    {Outcome("missing"), Outcome("noimport"), Outcome("error")}
    \cup {[kind |-> "returns", reply |-> r] :
            r \in {PyNone, PyObject}
                  \cup {TierReplies[i] : i \in {j \in 1..Len(TierReplies) : TierReplies[j] # <<>>}}}

OpenaiOutcomes ==
    {Outcome("transport"), Outcome("401"), Outcome("badjson"), Outcome("badshape")}
    \cup {[kind |-> "content", reply |-> TierReplies[i]] : i \in 1..Len(TierReplies)}

----------------------------------------------------------------------------
(* The state *)

config == <<GGML_MODEL_PATH, OPENAI_API_KEY>>

pipeline == <<store, jira, sent, cmd, act, qry>>

vars == <<GGML_MODEL_PATH, OPENAI_API_KEY, probe, store, jira, sent, cmd, act, qry>>

----------------------------------------------------------------------------
(* main.py, slack.py, models.py: values of the request handlers.  Slack     *)
(* identifiers, Jira keys and action ids are opaque strings; None is the    *)
(* absent value among them.                                                 *)

None == "None"

Cmds == 1..MaxTickets

Acts == 1..MaxActions

\* the user and the channel of the c-th /ticket command: the handlers only
\* copy these identifiers, so one pair per command stands for all
UserOf(c) == "U" \o ToString(c)

ChannelOf(c) == "C" \o ToString(c)

\* the text field of a /ticket command (main.py:22, form.get("text")): an
\* empty text, a ticket text, and an uploaded file sent under that name, which
\* is truthy and not a str
PipelineTexts == {<<>>, TextFrags[5], PyObject}

\* what the tiers answer while a background unit classifies
PipelineGgml ==
    {Outcome("error"), [kind |-> "returns", reply |-> TierReplies[2]]}

PipelineOpenai ==
    {Outcome("transport"), [kind |-> "content", reply |-> TierReplies[2]]}

\* the key of the n-th issue the tracker creates: the tracker never repeats one
KeyOf(n) == "KAN-" \o ToString(n)

\* main.py:91
TicketAck == "Processing your ticket"

\* an exception that leaves a request handler: the framework answers 500
ServerError == "Internal Server Error"

\* models.py: a row of ticket_logs (created_at, a wall-clock time, is left out)
TicketLog(id, slack_user, slack_channel, ticket_id, jira_issue_key, llm_result, status) ==
    [id |-> id, slack_user |-> slack_user, slack_channel |-> slack_channel,
     ticket_id |-> ticket_id, jira_issue_key |-> jira_issue_key,
     llm_result |-> llm_result, status |-> status]

\* main.py:46-53
label_to_issue_type(category) ==
    CASE category = "Task" -> "Task"
      [] category = "Bug" -> "Bug"
      [] category = "Incident" -> "Incident"
      [] category = "Feature Request" -> "Task"
      [] category = "Question" -> "Question"
      [] OTHER -> "Task"

\* build_approval_block with buttons that carry no key
build_approval_block_unkeyed(jira_key) ==
    <<[action_id |-> "approve_ticket", value |-> "UNKNOWN"],
      [action_id |-> "reject_ticket", value |-> "UNKNOWN"]>>

\* slack.py:71-102: the two buttons of the approval message
build_approval_block(jira_key) ==
    LET safe_key == IF jira_key # None /\ jira_key # "" THEN jira_key ELSE "UNKNOWN"
    IN  <<[action_id |-> "approve_ticket", value |-> safe_key],
          [action_id |-> "reject_ticket", value |-> safe_key]>>

\* a call send_message(channel, text, blocks, fallback_user); key is the
\* ticket key formatted into the text
Message(channel, text, key, blocks, fallback_user) ==
    [channel |-> channel, text |-> text, key |-> key, blocks |-> blocks,
     fallback_user |-> fallback_user]

\* the channels messages are requested for
AllChannels == {ChannelOf(c) : c \in Cmds} \cup {"C1"}

\* slack.py:13-69: the request is made; whatever the Slack API answers,
\* nothing is raised to the caller
send_message(channel, text, key, blocks, fallback_user) ==
    [sent EXCEPT ![channel] =
        Append(@, Message(channel, text, key, blocks, fallback_user))]

\* query_first falling back to the first row when no row has the ticket id
query_first_or_any(rows, ticket_id) ==
    LET ids == {i \in 1..Len(rows) : rows[i].ticket_id = ticket_id}
    IN  IF ids # {} THEN CHOOSE i \in ids : \A j \in ids : i <= j
        ELSE IF rows # <<>> THEN 1 ELSE 0

\* main.py:139: db.query(TicketLog).filter(ticket_id == v).first(): the id of
\* the first matching row, 0 for None
query_first(rows, ticket_id) ==
    LET ids == {i \in 1..Len(rows) : rows[i].ticket_id = ticket_id}
    IN  IF ids = {} THEN 0 ELSE CHOOSE i \in ids : \A j \in ids : i <= j

\* commit_status writing only if the row still has the status that was loaded
commit_status_versioned(rows, id, loaded, status) ==
    IF id # 0 /\ status # loaded /\ rows[id].status = loaded
    THEN [rows EXCEPT ![id] = [@ EXCEPT !.status = status]]
    ELSE rows

\* commit_status refusing to leave a status other than "created"
commit_status_guarded(rows, id, loaded, status) ==
    IF id # 0 /\ status # loaded /\ rows[id].status = "created"
    THEN [rows EXCEPT ![id] = [@ EXCEPT !.status = status]]
    ELSE rows

\* main.py:151: db.commit() of a session holding row id, loaded with status
\* `loaded` and now set to `status`: an UPDATE is emitted only for a net change
commit_status(rows, id, loaded, status) ==
    IF id # 0 /\ status # loaded
    THEN [rows EXCEPT ![id] = [@ EXCEPT !.status = status]]
    ELSE rows

\* commit_insert writing the new row over the last one the table holds
commit_insert_replacing(rows, log) ==
    IF rows = <<>> THEN <<[log EXCEPT !.id = 1]>>
    ELSE [rows EXCEPT ![Len(rows)] = [log EXCEPT !.id = Len(rows)]]

\* main.py:71-72: db_bg.add(log); db_bg.commit(): the row gets the next id
commit_insert(rows, log) ==
    Append(rows, [log EXCEPT !.id = Len(rows) + 1])

----------------------------------------------------------------------------
(* main.py: the /ticket branch of slack_command and its background unit *)

IdleCmd ==
    [pc |-> "idle", text |-> PyNone, user_id |-> None, channel_id |-> None,
     engine |-> "none", category |-> "", issue_type |-> "", jira_key |-> None,
     response |-> "", db |-> "none", db_bg |-> "none"]

\* slack_command_ticket awaiting the start of the unit before it answers
slack_command_ticket_awaiting(c, text, user_id, channel_id) ==
    /\ cmd[c].pc = "idle"
    /\ \A d \in Cmds : d < c => cmd[d].pc # "idle"
    /\ cmd' = [cmd EXCEPT ![c] =
                 [@ EXCEPT !.pc = "creating", !.text = text, !.user_id = user_id,
                           !.channel_id = channel_id, !.category = "Task",
                           !.issue_type = "Task", !.response = TicketAck,
                           !.db = "closed", !.db_bg = "open"]]
    /\ UNCHANGED <<config, probe, qry, store, jira, sent, act>>

\* lines 19-34 and 87-91: the request session is opened, the background unit
\* is scheduled with create_task and not awaited, the session is closed and
\* the acknowledgement is returned
slack_command_ticket(c, text, user_id, channel_id) ==
    /\ cmd[c].pc = "idle"
    /\ \A d \in Cmds : d < c => cmd[d].pc # "idle"
    /\ cmd' = [cmd EXCEPT ![c] =
                 [@ EXCEPT !.pc = "scheduled", !.text = text, !.user_id = user_id,
                           !.channel_id = channel_id, !.response = TicketAck,
                           !.db = "closed"]]
    /\ UNCHANGED <<config, probe, qry, store, jira, sent, act>>

\* bg_start without the try/except around classify_ticket
bg_start_unguarded(c) ==
    /\ cmd[c].pc = "scheduled"
    /\ \E g \in (IF GGML_MODEL_PATH THEN PipelineGgml ELSE {NoTier}),
          o \in (IF OPENAI_API_KEY THEN PipelineOpenai ELSE {NoTier}) :
         LET label == IF Truthy(cmd[c].text)
                      THEN classify_ticket(cmd[c].text, g, o).label
                      ELSE "Task"
         IN  cmd' = [cmd EXCEPT ![c] =
                       IF label = Raised
                       THEN [@ EXCEPT !.pc = "crashed", !.db_bg = "closed",
                                      !.engine = "raised"]
                       ELSE [@ EXCEPT !.pc = "creating", !.db_bg = "open",
                                      !.engine = IF Truthy(cmd[c].text)
                                                 THEN "returned" ELSE "skipped",
                                      !.category = label,
                                      !.issue_type = label_to_issue_type(label)]]
    /\ UNCHANGED <<config, probe, qry, store, jira, sent, act>>

\* lines 36-61: the unit starts: it opens its session, takes "Task" for a
\* falsy text and the result of classify_ticket otherwise ("Task" when it
\* raises), maps the label to an issue type and calls create_jira_issue.
\* Between the suspensions inside classify_ticket the unit touches nothing
\* but its own locals, so the segment is one step.
bg_start(c) ==
    /\ cmd[c].pc = "scheduled"
    /\ \E g \in (IF GGML_MODEL_PATH THEN PipelineGgml ELSE {NoTier}),
          o \in (IF OPENAI_API_KEY THEN PipelineOpenai ELSE {NoTier}) :
         LET label == IF Truthy(cmd[c].text)
                      THEN classify_ticket(cmd[c].text, g, o).label
                      ELSE "Task"
             engine == IF ~Truthy(cmd[c].text) THEN "skipped"
                       ELSE IF label = Raised THEN "raised" ELSE "returned"
             category == IF label = Raised THEN "Task" ELSE label
         IN  cmd' = [cmd EXCEPT ![c] =
                       [@ EXCEPT !.pc = "creating", !.db_bg = "open",
                                 !.engine = engine, !.category = category,
                                 !.issue_type = label_to_issue_type(category)]]
    /\ UNCHANGED <<config, probe, qry, store, jira, sent, act>>

\* bg_created_key with the row added to the session and never committed
bg_created_key_uncommitted(c) ==
    LET jira_key == KeyOf(jira + 1)
    IN  /\ cmd[c].pc = "creating"
        /\ jira' = jira + 1
        /\ sent' = send_message(cmd[c].channel_id, "Ticket has been created",
                                jira_key, build_approval_block(jira_key),
                                cmd[c].user_id)
        /\ cmd' = [cmd EXCEPT ![c] =
                     [@ EXCEPT !.pc = "done", !.jira_key = jira_key,
                               !.db_bg = "closed"]]
        /\ UNCHANGED <<config, probe, qry, store, act>>

\* lines 62-77 and 84-85: create_jira_issue returned a key (it can return only
\* when json.dumps accepts the text, jira.py:63): the row is added
\* and committed, the approval message is requested, and when send_message
\* returns (it raises nothing, slack.py:48-69) the session is closed.  After
\* the request the unit touches only its own session, so this is one step.
bg_created_key(c) ==
    LET jira_key == KeyOf(jira + 1)
        log == TicketLog(0, cmd[c].user_id, cmd[c].channel_id, jira_key, jira_key,
                         cmd[c].category, "created")
    IN  /\ cmd[c].pc = "creating"
        /\ cmd[c].text # PyObject
        /\ jira' = jira + 1
        /\ store' = commit_insert(store, log)
        /\ sent' = send_message(cmd[c].channel_id, "Ticket has been created",
                                jira_key, build_approval_block(jira_key),
                                cmd[c].user_id)
        /\ cmd' = [cmd EXCEPT ![c] =
                     [@ EXCEPT !.pc = "done", !.jira_key = jira_key,
                               !.db_bg = "closed"]]
        /\ UNCHANGED <<config, probe, qry, act>>

\* bg_created_none starting the unit over after the failure message
bg_created_none_retrying(c) ==
    /\ cmd[c].pc = "creating"
    /\ cmd[c].text # PyObject
    /\ sent' = send_message(cmd[c].channel_id, "Failed to create Jira ticket",
                            None, <<>>, cmd[c].user_id)
    /\ cmd' = [cmd EXCEPT ![c] = [@ EXCEPT !.pc = "scheduled"]]
    /\ UNCHANGED <<config, probe, qry, store, jira, act>>

\* bg_created_none logging the failure without telling the channel
bg_created_none_silent(c) ==
    /\ cmd[c].pc = "creating"
    /\ cmd' = [cmd EXCEPT ![c] = [@ EXCEPT !.pc = "done", !.db_bg = "closed"]]
    /\ UNCHANGED <<config, probe, qry, store, jira, sent, act>>

\* lines 78-85 (jira.py:71-82): create_jira_issue returned None: nothing is
\* stored, the failure message is requested and the session is closed
bg_created_none(c) ==
    /\ cmd[c].pc = "creating"
    /\ cmd[c].text # PyObject
    /\ sent' = send_message(cmd[c].channel_id, "Failed to create Jira ticket",
                            None, <<>>, cmd[c].user_id)
    /\ cmd' = [cmd EXCEPT ![c] = [@ EXCEPT !.pc = "done", !.db_bg = "closed"]]
    /\ UNCHANGED <<config, probe, qry, store, jira, act>>

\* bg_created_raise with the row stored before create_jira_issue is called
bg_created_raise_persisting(c) ==
    /\ cmd[c].pc = "creating"
    /\ store' = commit_insert(store, TicketLog(0, cmd[c].user_id, cmd[c].channel_id,
                                               None, None, cmd[c].category, "created"))
    /\ cmd' = [cmd EXCEPT ![c] = [@ EXCEPT !.pc = "crashed", !.db_bg = "closed"]]
    /\ UNCHANGED <<config, probe, qry, jira, sent, act>>

\* lines 56-61 and 84-85 (jira.py:63-70): the request of create_jira_issue
\* raised, or json.dumps raised on a summary that is not a str: only the
\* finally clause runs and the exception leaves the task
bg_created_raise(c) ==
    /\ cmd[c].pc = "creating"
    /\ cmd' = [cmd EXCEPT ![c] = [@ EXCEPT !.pc = "crashed", !.db_bg = "closed"]]
    /\ UNCHANGED <<config, probe, qry, store, jira, sent, act>>

----------------------------------------------------------------------------
(* main.py: slack_actions *)

\* an interaction request: how the payload arrives (form), its actions list
\* when it has one, and the three places a channel id may be in
Payload(form, has_actions, actions, channel, container, channel_id) ==
    [form |-> form, has_actions |-> has_actions, actions |-> actions,
     channel |-> channel, container |-> container, channel_id |-> channel_id]

ActionIds == {"approve_ticket", "reject_ticket", "open_ticket"}

\* the channel id in payload.channel.id, in payload.container.channel_id or
\* in payload.channel_id
ChannelShapes ==
    {<<"C1", None, None>>, <<None, "C1", None>>, <<None, None, "C1">>}

Payloads ==
    {Payload("empty", FALSE, <<>>, None, None, None),
     Payload("garbage", FALSE, <<>>, None, None, None)}
    \cup {Payload(f, h, <<>>, "C1", None, None) :
            f \in {"json", "form"}, h \in BOOLEAN}
    \cup {Payload(f, TRUE, <<[action_id |-> i, value |-> v]>>, s[1], s[2], s[3]) :
            f \in {"json", "form"}, i \in ActionIds,
            v \in {KeyOf(n) : n \in Cmds} \cup {None}, s \in ChannelShapes}

\* lines 129-136
resolve_channel(payload) ==
    IF payload.channel # None THEN payload.channel
    ELSE IF payload.container # None THEN payload.container
    ELSE payload.channel_id

\* lines 112-127: TRUE iff a payload object is obtained and has a first action
parses(payload) ==
    /\ payload.form \in {"json", "form"}
    /\ payload.has_actions
    /\ payload.actions # <<>>

IdleAct ==
    [pc |-> "idle", action_id |-> None, ticket_id |-> None, channel_id |-> None,
     log |-> 0, loaded |-> "", status |-> "", response |-> "", db |-> "none"]

\* the handler returns: its locals are gone, its response stays
Returned(response, db) ==
    [IdleAct EXCEPT !.pc = "done", !.response = response, !.db = db]

\* lines 109-150, up to the first suspension in send_message (or to the return
\* when no message is sent)
slack_actions(a, payload) ==
    /\ act[a].pc = "idle"
    /\ \A b \in Acts : b < a => act[b].pc # "idle"
    /\ IF payload.form = "empty"
       THEN \* lines 118-123: no payload field and no JSON body
            /\ act' = [act EXCEPT ![a] = Returned("invalid payload", "none")]
            /\ UNCHANGED <<store, sent>>
       ELSE IF ~parses(payload)
       THEN \* lines 125-127: json.loads, payload["actions"] or [0] raises
            /\ act' = [act EXCEPT ![a] = Returned(ServerError, "none")]
            /\ UNCHANGED <<store, sent>>
       ELSE LET action_id == payload.actions[1].action_id
                ticket_id == payload.actions[1].value
                channel_id == resolve_channel(payload)
                log == query_first(store, ticket_id)
                me == [IdleAct EXCEPT !.action_id = action_id, !.ticket_id = ticket_id,
                                      !.channel_id = channel_id, !.db = "open"]
            IN  IF log = 0
                THEN \* lines 140-141
                     /\ sent' = send_message(channel_id, "Ticket not found",
                                             ticket_id, <<>>, None)
                     /\ act' = [act EXCEPT ![a] = [me EXCEPT !.pc = "not_found"]]
                     /\ UNCHANGED store
                ELSE IF action_id = "approve_ticket"
                THEN \* lines 145-147
                     /\ sent' = send_message(channel_id, "Ticket has been approved",
                                             ticket_id, <<>>, None)
                     /\ act' = [act EXCEPT ![a] =
                                  [me EXCEPT !.pc = "sending", !.log = log,
                                             !.loaded = store[log].status,
                                             !.status = "approved"]]
                     /\ UNCHANGED store
                ELSE IF action_id = "reject_ticket"
                THEN \* lines 148-150
                     /\ sent' = send_message(channel_id, "Ticket has been rejected",
                                             ticket_id, <<>>, None)
                     /\ act' = [act EXCEPT ![a] =
                                  [me EXCEPT !.pc = "sending", !.log = log,
                                             !.loaded = store[log].status,
                                             !.status = "rejected"]]
                     /\ UNCHANGED store
                ELSE \* lines 151-153: nothing was set, the commit writes nothing
                     /\ store' = commit_status(store, log, store[log].status,
                                               store[log].status)
                     /\ act' = [act EXCEPT ![a] = Returned("completed", "closed")]
                     /\ UNCHANGED sent
    /\ UNCHANGED <<config, probe, qry, jira, cmd>>

\* lines 141-143: send_message returned on the branch of a ticket not found
slack_actions_not_found(a) ==
    /\ act[a].pc = "not_found"
    /\ act' = [act EXCEPT ![a] = Returned("ticket not found", "closed")]
    /\ UNCHANGED <<config, probe, qry, store, jira, sent, cmd>>

\* lines 147-153: send_message returned after log.status was set: the
\* session is committed and closed
slack_actions_commit(a) ==
    /\ act[a].pc = "sending"
    /\ store' = commit_status(store, act[a].log, act[a].loaded, act[a].status)
    /\ act' = [act EXCEPT ![a] = Returned("completed", "closed")]
    /\ UNCHANGED <<config, probe, qry, jira, sent, cmd>>

----------------------------------------------------------------------------
(* jira.py: get_jira_status; main.py: the /ticket_status and unknown-command *)
(* branches of slack_command                                                *)

Qrys == 1..MaxQueries

KeyChars == <<"K","A","N","-","1">>

\* the text field of a /ticket_status command: absent, empty, blank, a key,
\* a key with white space around it
QueryTexts ==
    {PyNone, <<>>, <<" ", "\t">>, KeyChars, <<" ">> \o KeyChars \o <<NL>>}

\* what the tracker does with GET /rest/api/3/issue/<key>: the request fails,
\* the response is not 200, or it is 200 with a body that is not JSON, that
\* has no "fields", no "status", no "name", a null status, a null name, or a
\* status name
JiraStatusOutcomes ==
    {Outcome("transport"), Outcome("non200"), Outcome("badjson"),
     Outcome("nofields"), Outcome("nostatus"), Outcome("noname"),
     Outcome("nullstatus"), Outcome("nullname"),
     [kind |-> "name", reply |-> <<"To Do">>]}

\* jira.py:85-114: the status name returned, Raised when the call raises
get_jira_status(issue_key, j) ==
    IF ~Truthy(issue_key) \/ strip(issue_key) = <<>> THEN "Unknown"  \* lines 86-88
    ELSE IF j.kind = "transport" THEN "Unknown"                      \* lines 93-98
    ELSE IF j.kind = "non200" THEN "Unknown"                         \* lines 112-114
    ELSE IF j.kind = "badjson" THEN Raised        \* line 110: resp.json() outside try
    ELSE IF j.kind \in {"nofields", "nostatus", "noname"} THEN "Unknown"  \* line 111
    ELSE IF j.kind = "nullstatus" THEN Raised     \* line 111: None.get
    ELSE IF j.kind = "nullname" THEN None         \* line 111: the name as it is
    ELSE j.reply[1]

\* main.py:97
Prompt == <<"Please provide a ticket key, e.g. /ticket_status KAN-1">>

\* main.py:101: f"Ticket {jira_key} Status: {status}"
StatusReply(jira_key, status) == <<"Ticket", jira_key, "Status:", status>>

\* main.py:105; a response of these handlers is a tuple of its parts
UnknownCommand == <<"unknown command">>

IdleQry ==
    [pc |-> "idle", command |-> None, text |-> PyNone, jira_key |-> <<>>,
     outcome |-> NoTier, called |-> FALSE, response |-> <<>>, db |-> "none"]

\* slack_command_status passing the text to the tracker as it came
slack_command_status_unstripped(q, text) ==
    /\ qry[q].pc = "idle"
    /\ \A p \in Qrys : p < q => qry[p].pc # "idle"
    /\ qry' = [qry EXCEPT ![q] =
                 IF ~Truthy(text)
                 THEN [@ EXCEPT !.pc = "done", !.command = "/ticket_status",
                                !.text = text, !.response = Prompt,
                                !.db = "closed"]
                 ELSE [@ EXCEPT !.pc = "querying", !.command = "/ticket_status",
                                !.text = text, !.jira_key = text,
                                !.called = TRUE, !.db = "open"]]
    /\ UNCHANGED <<config, probe, store, jira, sent, cmd, act>>

\* main.py:19-28 and 93-98: the session is opened; an empty key closes it and
\* returns the prompt, any other key is passed to get_jira_status
slack_command_status(q, text) ==
    LET jira_key == strip(IF Truthy(text) THEN text ELSE <<>>)
    IN  /\ qry[q].pc = "idle"
        /\ \A p \in Qrys : p < q => qry[p].pc # "idle"
        /\ qry' = [qry EXCEPT ![q] =
                     IF jira_key = <<>>
                     THEN [@ EXCEPT !.pc = "done", !.command = "/ticket_status",
                                    !.text = text, !.response = Prompt,
                                    !.db = "closed"]
                     ELSE [@ EXCEPT !.pc = "querying", !.command = "/ticket_status",
                                    !.text = text, !.jira_key = jira_key,
                                    !.called = TRUE, !.db = "open"]]
        /\ UNCHANGED <<config, probe, store, jira, sent, cmd, act>>

\* main.py:98-101: get_jira_status returns and the session is closed, or it
\* raises and the exception leaves the handler with the session as it is
slack_command_status_done(q) ==
    /\ qry[q].pc = "querying"
    /\ \E j \in JiraStatusOutcomes :
         LET status == get_jira_status(qry[q].jira_key, j)
         IN  qry' = [qry EXCEPT ![q] =
                       IF status = Raised
                       THEN [@ EXCEPT !.pc = "done", !.outcome = j,
                                      !.response = <<ServerError>>]
                       ELSE [@ EXCEPT !.pc = "done", !.outcome = j,
                                      !.response = StatusReply(qry[q].jira_key, status),
                                      !.db = "closed"]]
    /\ UNCHANGED <<config, probe, store, jira, sent, cmd, act>>

\* main.py:19-28 and 103-105: any other command
slack_command_unknown(q, command) ==
    /\ qry[q].pc = "idle"
    /\ \A p \in Qrys : p < q => qry[p].pc # "idle"
    /\ qry' = [qry EXCEPT ![q] =
                 [@ EXCEPT !.pc = "done", !.command = command,
                           !.response = UnknownCommand, !.db = "closed"]]
    /\ UNCHANGED <<config, probe, store, jira, sent, cmd, act>>

----------------------------------------------------------------------------
(* The classifier functions applied to the inputs *)

Idle ==
    [fn |-> "idle", text |-> <<>>, reply |-> <<>>, ggml |-> NoTier,
     openai |-> NoTier, out |-> "", called |-> <<>>]

CallHeuristic ==
    /\ probe.fn = "idle"
    /\ \E text \in Texts \cup {PyNone} :
         probe' = [Idle EXCEPT !.fn = "heuristic", !.text = text,
                               !.out = _heuristic_label_from_text(text)]
    /\ UNCHANGED <<config, pipeline>>

CallNormalize ==
    /\ probe.fn = "idle"
    /\ \E reply \in Replies \cup {PyNone, PyObject}, text \in OriginalTexts \cup {PyNone} :
         probe' = [Idle EXCEPT !.fn = "normalize", !.text = text, !.reply = reply,
                               !.out = _normalize_label(reply, text)]
    /\ UNCHANGED <<config, pipeline>>

CallClassify ==
    /\ probe.fn = "idle"
    /\ \E text \in OriginalTexts \cup {PyNone},
          g \in (IF GGML_MODEL_PATH THEN GgmlOutcomes ELSE {NoTier}),
          o \in (IF OPENAI_API_KEY THEN OpenaiOutcomes ELSE {NoTier}) :
         LET res == classify_ticket(text, g, o)
         IN  probe' = [Idle EXCEPT !.fn = "classify", !.text = text, !.ggml = g,
                                   !.openai = o, !.out = res.label,
                                   !.called = res.called]
    /\ UNCHANGED <<config, pipeline>>

PipelineInit ==
    /\ store = <<>>
    /\ jira = 0
    /\ sent = [ch \in AllChannels |-> <<>>]
    /\ cmd = [c \in Cmds |-> IdleCmd]
    /\ act = [a \in Acts |-> IdleAct]
    /\ qry = [q \in Qrys |-> IdleQry]

LlmInit ==
    /\ GGML_MODEL_PATH \in BOOLEAN
    /\ OPENAI_API_KEY \in BOOLEAN
    /\ probe = Idle
    /\ PipelineInit

LlmNext == CallHeuristic \/ CallNormalize \/ CallClassify

SpecLlm == LlmInit /\ [][LlmNext]_vars

----------------------------------------------------------------------------
(* The service *)

\* The service runs with both inference resources configured.  A tier that
\* fails answers as an unconfigured one does (llm.py:265-275), so the labels
\* a background unit can get under any other configuration are among those
\* it can get here; SpecLlm examines classify_ticket under every one.
Init ==
    /\ GGML_MODEL_PATH = TRUE
    /\ OPENAI_API_KEY = TRUE
    /\ probe = Idle
    /\ PipelineInit

IntakeNext ==
    \/ \E c \in Cmds, text \in PipelineTexts :
         slack_command_ticket(c, text, UserOf(c), ChannelOf(c))
    \/ \E c \in Cmds : bg_start(c)
    \/ \E c \in Cmds : bg_created_key(c)
    \/ \E c \in Cmds : bg_created_none(c)
    \/ \E c \in Cmds : bg_created_raise(c)

Next ==
    \/ IntakeNext
    \/ \E a \in Acts, payload \in Payloads : slack_actions(a, payload)
    \/ \E a \in Acts : slack_actions_not_found(a)
    \/ \E a \in Acts : slack_actions_commit(a)

Spec == Init /\ [][Next]_vars

\* no invocation of the action handler is between its two steps
ActionsQuiet == \A a \in Acts : act[a].pc \in {"idle", "done"}

\* The service with a user who clicks a button only after the previous click
\* was answered: the action handler's invocations do not overlap.
SeqNext ==
    \/ IntakeNext
    \/ \E a \in Acts, payload \in Payloads :
         ActionsQuiet /\ slack_actions(a, payload)
    \/ \E a \in Acts : slack_actions_not_found(a)
    \/ \E a \in Acts : slack_actions_commit(a)

SpecSeq == Init /\ [][SeqNext]_vars

\* the create_jira_issue call of unit c returns or raises
bg_created(c) == bg_created_key(c) \/ bg_created_none(c) \/ bg_created_raise(c)

\* The /ticket commands alone, with an event loop that keeps driving every
\* scheduled task (main.py:88) and collaborators whose calls all return or
\* raise in the end.
SpecIntakeFair ==
    /\ Init /\ [][IntakeNext]_vars
    /\ \A c \in Cmds : WF_vars(bg_start(c)) /\ WF_vars(bg_created(c))

\* The service started on a database that already holds the row of ticket
\* KAN-1 (models.py: the table outlives the process), in any status an
\* earlier run can have left it in.
RaceInit ==
    /\ GGML_MODEL_PATH = TRUE
    /\ OPENAI_API_KEY = TRUE
    /\ probe = Idle
    /\ \E status \in {"created", "approved", "rejected"} :
         store = <<TicketLog(1, UserOf(1), ChannelOf(1), KeyOf(1), KeyOf(1),
                             "Task", status)>>
    /\ jira = 1
    /\ sent = [ch \in AllChannels |-> <<>>]
    /\ cmd = [c \in Cmds |-> IdleCmd]
    /\ act = [a \in Acts |-> IdleAct]
    /\ qry = [q \in Qrys |-> IdleQry]

\* The invocations of the action handler, overlapping in any way.
RaceNext ==
    \/ \E a \in Acts, payload \in Payloads : slack_actions(a, payload)
    \/ \E a \in Acts : slack_actions_not_found(a)
    \/ \E a \in Acts : slack_actions_commit(a)

SpecRace == RaceInit /\ [][RaceNext]_vars

\* The commands that create no ticket.
StatusNext ==
    \/ \E q \in Qrys, text \in QueryTexts : slack_command_status(q, text)
    \/ \E q \in Qrys : slack_command_status_done(q)
    \/ \E q \in Qrys, command \in {None, "/help"} : slack_command_unknown(q, command)

SpecStatus == Init /\ [][StatusNext]_vars

\* One /ticket command of another user, the action handler's invocations and
\* one /ticket_status command with no key or with a key, overlapping in any
\* way, on a database that already holds the row of ticket KAN-1.
RecordsNext ==
    \/ \E text \in PipelineTexts :
         slack_command_ticket(1, text, UserOf(2), ChannelOf(2))
    \/ bg_start(1)
    \/ bg_created_key(1)
    \/ bg_created_none(1)
    \/ bg_created_raise(1)
    \/ \E a \in Acts, payload \in Payloads : slack_actions(a, payload)
    \/ \E a \in Acts : slack_actions_not_found(a)
    \/ \E a \in Acts : slack_actions_commit(a)
    \/ \E text \in {<<>>, KeyChars} : slack_command_status(1, text)
    \/ slack_command_status_done(1)

SpecRecords == RaceInit /\ [][RecordsNext]_vars

----------------------------------------------------------------------------
(* Properties of the handlers *)

\* the rows stored for command c, which alone has its user id
RowsOf(c) == {i \in 1..Len(store) : store[i].slack_user = UserOf(c)}

\* the requests for a message with this text made for command c
NoticesOf(c, text) ==
    {i \in 1..Len(sent[ChannelOf(c)]) :
        /\ sent[ChannelOf(c)][i].text = text
        /\ sent[ChannelOf(c)][i].fallback_user = UserOf(c)}

\* the requests for a message made for command c in any other channel
StrayNoticesOf(c) ==
    {p \in AllChannels \X (1..(MaxTickets + MaxActions)) :
        /\ p[1] # ChannelOf(c)
        /\ p[2] <= Len(sent[p[1]])
        /\ sent[p[1]][p[2]].fallback_user = UserOf(c)}

\* C1: for every /ticket command whose create_jira_issue call returned a key
\* k, whatever else runs in between, the unit stored exactly one row for the
\* command, inserted with ticket_id = jira_issue_key = k, status "created"
\* and llm_result equal to the label of its classification step, and it
\* requested one approval message for k in the command's channel.
C1_SuccessfulIntake ==
    /\ [](\A c \in Cmds : cmd[c].jira_key # None =>
            /\ Cardinality(RowsOf(c)) = 1
            /\ \A i \in RowsOf(c) :
                 /\ store[i].ticket_id = cmd[c].jira_key
                 /\ store[i].jira_issue_key = cmd[c].jira_key
                 /\ store[i].llm_result = cmd[c].category
                 /\ store[i].slack_channel = ChannelOf(c)
            /\ Cardinality(NoticesOf(c, "Ticket has been created")) = 1
            /\ \A i \in NoticesOf(c, "Ticket has been created") :
                 sent[ChannelOf(c)][i].key = cmd[c].jira_key
            /\ NoticesOf(c, "Failed to create Jira ticket") = {}
            /\ StrayNoticesOf(c) = {})
    /\ [][\A c \in Cmds :
            (cmd[c].jira_key = None /\ cmd'[c].jira_key # None) =>
                /\ Len(store') = Len(store) + 1
                /\ store'[Len(store')].slack_user = UserOf(c)
                /\ store'[Len(store')].status = "created"
                /\ \A i \in 1..Len(store) : store'[i] = store[i]]_vars

\* both commands got a key while an action handler ran in between
C1_Witness ==
    /\ \A c \in Cmds : cmd[c].jira_key # None
    /\ cmd[1].category = "Bug"
    /\ \E a \in Acts : act[a].response = "completed"
    /\ \E i \in 1..Len(store) : store[i].status = "approved"

\* C2: for every /ticket command whose create_jira_issue call returned no
\* key, the unit stores no row for the command and requests the failure
\* message in the command's channel.
C2_FailedIntake ==
    \A c \in Cmds : (cmd[c].pc = "done" /\ cmd[c].jira_key = None) =>
        /\ RowsOf(c) = {}
        /\ Cardinality(NoticesOf(c, "Failed to create Jira ticket")) = 1
        /\ NoticesOf(c, "Ticket has been created") = {}
        /\ StrayNoticesOf(c) = {}

\* one command failed while the other one got its key and its row
C2_Witness ==
    /\ cmd[1].pc = "done" /\ cmd[1].jira_key = None
    /\ cmd[2].pc = "done" /\ cmd[2].jira_key # None
    /\ Len(store) = 1

\* C3: the /ticket handler returns its acknowledgement with the unit only
\* scheduled: no step of the unit has run, nothing is stored, requested or
\* created at that moment, and the acknowledgement stays the same whatever
\* the unit does afterwards.
C3_AckThenBackground ==
    [][\A c \in Cmds :
        /\ (cmd[c].pc = "idle" /\ cmd'[c].pc # "idle") =>
              /\ cmd'[c].pc = "scheduled"
              /\ cmd'[c].response = TicketAck
              /\ cmd'[c].db_bg = "none"
              /\ cmd'[c].category = ""
              /\ UNCHANGED <<store, jira, sent>>
        /\ cmd[c].pc # "idle" => cmd'[c].response = TicketAck]_vars

\* the same acknowledgement stands for a unit that stored its row and for
\* one whose task ended in an exception
C3_Witness ==
    /\ cmd[1].pc = "crashed" /\ cmd[1].response = TicketAck
    /\ cmd[2].pc = "done" /\ cmd[2].response = TicketAck

\* C4: when the action handler's invocations on a row follow one another,
\* each approve or reject leaves the row with the status of that action,
\* whatever the status was before: the last action of a sequence decides.
C4_LastActionDecides ==
    [][\A a \in Acts :
        (act[a].pc = "sending" /\ act'[a].pc = "done") =>
            store'[act[a].log].status =
                (IF act[a].action_id = "approve_ticket" THEN "approved"
                 ELSE "rejected")]_vars

\* approve, then reject, of the same ticket: the row is rejected
C4_Witness ==
    /\ ActionsQuiet
    /\ \E i, j \in 1..Len(sent["C1"]) :
         /\ i < j
         /\ sent["C1"][i].text = "Ticket has been approved"
         /\ sent["C1"][j].text = "Ticket has been rejected"
         /\ sent["C1"][i].key = KeyOf(1)
         /\ sent["C1"][j].key = KeyOf(1)
    /\ Len(store) >= 1
    /\ store[1].status = "rejected"

\* the payload has no actions list, or its first action has no value
Malformed(payload) ==
    /\ payload.form \in {"json", "form"}
    /\ \/ ~payload.has_actions
       \/ payload.actions = <<>>
       \/ payload.actions[1].value = None

\* C5: on a payload with no actions list, or whose first action has no
\* value, the action handler answers "invalid payload", raises nothing and
\* neither reads nor changes the store.
C5_MalformedPayload ==
    [][\A a \in Acts, payload \in Payloads :
        (Malformed(payload) /\ slack_actions(a, payload)) =>
            /\ act'[a].response = "invalid payload"
            /\ act'[a].db = "none"
            /\ store' = store]_vars

----------------------------------------------------------------------------
(* Properties of the classifier, checked under SpecLlm *)

Word_crash == <<"c","r","a","s","h">>

Word_feature == <<"f","e","a","t","u","r","e">>

Reply_BugColon == <<"B","u","g",":"," ","a","p","p"," ","w","o","n","'","t"," ","s","t","a","r","t">>

Reply_FeatureColon ==
    <<"F","e","a","t","u","r","e"," ","R","e","q","u","e","s","t",":"," ",
      "n","e","e","d","s"," ","a"," ","d","r","o","p","d","o","w","n">>

Reply_Dropdown == <<"n","e","e","d","s"," ","a"," ","d","r","o","p","d","o","w","n">>

Text_Crashes == <<"M","y"," ","a","p","p"," ","c","r","a","s","h","e","s"," ","o","n"," ",
                  "s","t","a","r","t","u","p">>

\* C6: classify_ticket is total: for every str text and every tier
\* configuration and outcome it returns, without raising, a label of LABELS.
C6_ClassifyTotal ==
    (probe.fn = "classify" /\ IsStr(probe.text)) => probe.out \in LabelSet

\* both tiers configured, both fail, empty text: the result is still a label
C6_Witness ==
    /\ probe.fn = "classify" /\ probe.text = <<>>
    /\ GGML_MODEL_PATH /\ OPENAI_API_KEY
    /\ probe.ggml.kind = "error" /\ probe.openai.kind = "transport"
    /\ probe.called = <<"ggml", "openai">>
    /\ probe.out = "Task"

\* C7: with neither a model path nor an API key configured, classify_ticket
\* returns Task for every text and calls no tier; the keyword heuristic over
\* the text is not consulted.
C7_NoResourceIsTask ==
    (probe.fn = "classify" /\ ~GGML_MODEL_PATH /\ ~OPENAI_API_KEY)
        => (probe.out = "Task" /\ probe.called = <<>>)

\* text the heuristic alone labels Bug is classified Task
C7_Witness ==
    /\ probe.fn = "classify" /\ ~GGML_MODEL_PATH /\ ~OPENAI_API_KEY
    /\ IsStr(probe.text)
    /\ _heuristic_label_from_text(probe.text) = "Bug"
    /\ probe.out = "Task"

\* the line is the label, or the label followed by white space or a colon and
\* further text, compared without regard to case
LabelPrefixed(r, lbl) ==
    LET low == lower(r)
        l == lower(lbl)
    IN  /\ Len(low) >= Len(l)
        /\ SubSeq(low, 1, Len(l)) = l
        /\ (Len(low) = Len(l) \/ low[Len(l) + 1] \in Whitespace \cup {":"})

\* C8: a reply whose first non-empty line is a label L, or begins with L
\* followed by further text ("Bug: app won't start", "Feature Request: needs
\* a dropdown"), is normalized to L whatever the original text is.
C8_LabelPrefixedReply ==
    (probe.fn = "normalize" /\ IsStr(probe.reply) /\ Truthy(probe.reply))
        => \A i \in 1..Len(LABELS) :
             LabelPrefixed(first_line(probe.reply), LabelChars[i])
                 => probe.out = LABELS[i]

\* the reply's first line starts with the tokens of some label
StartsWithLabel(r) ==
    \E i \in 1..Len(LABELS) :
        LET lt == split(lower(LabelChars[i]))
            rt == split(lower(r))
        IN  Len(rt) >= Len(lt) /\ SubSeq(rt, 1, Len(lt)) = lt

\* C9: when the reply's first non-empty line neither is nor starts with a
\* label and the heuristic over the original text yields a label H other than
\* Task, the result is H whatever keywords the reply holds; the reply's
\* keywords (Bug, Incident, Feature Request, Question order) decide only when
\* the original text yields Task.
C9_OriginalTextFirst ==
    (/\ probe.fn = "normalize" /\ IsStr(probe.reply) /\ Truthy(probe.reply)
     /\ ~StartsWithLabel(first_line(probe.reply)))
        => LET H == _heuristic_label_from_text(probe.text)
               low_r == lower(first_line(probe.reply))
           IN  /\ H # "Task" => probe.out = H
               /\ H = "Task" =>
                    probe.out = (IF any_in(reply_bug_keys, low_r) THEN "Bug"
                                 ELSE IF any_in(reply_incident_keys, low_r) THEN "Incident"
                                 ELSE IF any_in(reply_feature_keys, low_r) THEN "Feature Request"
                                 ELSE IF any_in(reply_question_keys, low_r) THEN "Question"
                                 ELSE "Task")

\* a reply with an Incident keyword ("down") and a crash text: the text wins
C9_Witness ==
    /\ probe.fn = "normalize"
    /\ probe.reply = Reply_Dropdown
    /\ probe.text = Text_Crashes
    /\ probe.out = "Bug"

\* some keyword of the table occurs in the lower-cased text
Hits(words, text) == \E k \in 1..Len(words) : Contains(words[k], lower(text))

\* C10: the heuristic returns the label of the first keyword table, in the
\* order Bug, Incident, Feature Request, Question, with a keyword contained in
\* the lower-cased text; empty text and text hitting no table yield Task.
C10_HeuristicPriority ==
    probe.fn = "heuristic" =>
        IF ~Truthy(probe.text) THEN probe.out = "Task"
        ELSE LET b == Hits(bug_words, probe.text)
                 n == Hits(incident_words, probe.text)
                 f == Hits(feature_words, probe.text)
                 q == Hits(question_words, probe.text)
             IN  /\ probe.out = "Bug" <=> b
                 /\ probe.out = "Incident" <=> (~b /\ n)
                 /\ probe.out = "Feature Request" <=> (~b /\ ~n /\ f)
                 /\ probe.out = "Question" <=> (~b /\ ~n /\ ~f /\ q)
                 /\ probe.out = "Task" <=> (~b /\ ~n /\ ~f /\ ~q)

\* text with both "crash" and "feature" is labelled Bug
C10_Witness ==
    /\ probe.fn = "heuristic" /\ IsStr(probe.text)
    /\ Contains(Word_crash, lower(probe.text))
    /\ Contains(Word_feature, lower(probe.text))
    /\ probe.out = "Bug"
----------------------------------------------------------------------------
(* Properties of the status query, checked under SpecStatus *)

\* C11: for a non-empty key, when the request of get_jira_status fails, the
\* response is not a success, or the response is a success whose body is not
\* JSON or has no status name, get_jira_status returns "Unknown", nothing is
\* raised, and the handler answers "Ticket <key> Status: Unknown".
C11_StatusFailSoft ==
    \A q \in Qrys :
        (/\ qry[q].pc = "done" /\ qry[q].called
         /\ qry[q].outcome.kind \in {"transport", "non200", "badjson",
                                     "nofields", "nostatus", "noname"})
            => qry[q].response = StatusReply(qry[q].jira_key, "Unknown")

\* the text is absent, empty or white space only
Blank(text) == ~Truthy(text) \/ \A i \in 1..Len(text) : text[i] \in Whitespace

\* C12: a /ticket_status command whose key is empty or white space only
\* returns the prompt at once: get_jira_status is not called, and the store
\* and the tracker are left as they are.
C12_EmptyKeyPrompt ==
    [][\A q \in Qrys :
        (/\ qry[q].pc = "idle" /\ qry'[q].pc # "idle"
         /\ qry'[q].command = "/ticket_status" /\ Blank(qry'[q].text)) =>
            /\ qry'[q].pc = "done"
            /\ qry'[q].response = Prompt
            /\ ~qry'[q].called
            /\ store' = store /\ jira' = jira /\ sent' = sent]_vars

\* a blank key got the prompt, and a key with white space around it was
\* passed on
C12_Witness ==
    /\ qry[1].pc = "done" /\ qry[1].text = <<" ", "\t">>
    /\ qry[1].response = Prompt /\ ~qry[1].called
    /\ qry[2].called /\ qry[2].jira_key = KeyChars /\ qry[2].text # KeyChars

\* C17: no handler and no background unit that has exited has its session
\* still open, whether it returned or an exception left it.
C17_SessionRelease ==
    /\ \A c \in Cmds :
         /\ cmd[c].pc # "idle" => cmd[c].db = "closed"
         /\ cmd[c].pc \in {"done", "crashed"} => cmd[c].db_bg = "closed"
    /\ \A a \in Acts : act[a].pc = "done" => act[a].db # "open"
    /\ \A q \in Qrys : qry[q].pc = "done" => qry[q].db # "open"
----------------------------------------------------------------------------
(* Properties of the background unit's steps, checked under Spec *)

\* C13: every row of the store has the key that a completed create_jira_issue
\* call of its own command returned; a command whose call has not returned,
\* returned no key or raised has no row.
C13_RecordsFollowCreation ==
    /\ \A i \in 1..Len(store) :
         /\ store[i].ticket_id \in {KeyOf(n) : n \in 1..jira}
         /\ \E c \in Cmds :
              /\ cmd[c].pc = "done"
              /\ cmd[c].jira_key = store[i].ticket_id
              /\ store[i].slack_user = UserOf(c)
    /\ \A c \in Cmds : cmd[c].jira_key = None => RowsOf(c) = {}

\* one command has its row; the call of the other one raised and it has none
C13_Witness ==
    /\ cmd[1].pc = "crashed" /\ cmd[1].engine = "returned"
    /\ cmd[2].jira_key = KeyOf(1)
    /\ Len(store) = 1 /\ store[1].slack_user = UserOf(2)

\* C14: a row's status changes only in the commit of an approve or a reject
\* whose payload value is the row's ticket_id, and it becomes that action's
\* status; an invocation that finds no row for the value, or whose action id
\* is another one, leaves every row as it is, and no step changes anything
\* of a row but its status.
C14_ActionFrame ==
    [][/\ \A i \in 1..Len(store) :
            /\ store'[i] = [store[i] EXCEPT !.status = store'[i].status]
            /\ store'[i].status # store[i].status =>
                  \E a \in Acts :
                      /\ act[a].pc = "sending" /\ act'[a].pc = "done"
                      /\ act[a].action_id \in {"approve_ticket", "reject_ticket"}
                      /\ act[a].ticket_id = store[i].ticket_id
                      /\ store'[i].status =
                            (IF act[a].action_id = "approve_ticket"
                             THEN "approved" ELSE "rejected")
       /\ \A a \in Acts, payload \in Payloads :
            (/\ slack_actions(a, payload) /\ parses(payload)
             /\ \/ query_first(store, payload.actions[1].value) = 0
                \/ payload.actions[1].action_id
                       \notin {"approve_ticket", "reject_ticket"})
                => store' = store
       /\ \A a \in Acts :
            (act[a].pc = "not_found" /\ act'[a].pc = "done")
                => (store' = store /\ act'[a].response = "ticket not found")]_vars

\* a row was approved, and an invocation for a key with no row was answered
\* "ticket not found" with the row still approved
C14_Witness ==
    /\ Len(store) = 1 /\ store[1].status = "approved"
    /\ act[1].response = "completed"
    /\ act[2].response = "ticket not found"

\* C19: the action handler stores the new status before it notifies the
\* channel: while the notification of an approve or a reject is requested,
\* the store holds the new status for that key.
C19_PersistBeforeNotify ==
    \A a \in Acts :
        act[a].pc = "sending" => store[act[a].log].status = act[a].status

----------------------------------------------------------------------------
(* Properties of the tier order, checked under SpecLlm *)

\* the tier is among those the examined call of classify_ticket called
Called(tier) == \E i \in 1..Len(probe.called) : probe.called[i] = tier

\* C15: when the local tier is configured and its normalized result is a
\* label other than Task, classify_ticket returns it and the remote tier is
\* not called; the remote tier is called exactly when an API key is
\* configured and the local tier is unconfigured, failed or gave Task, and
\* then its normalized result is returned as it is, a transport,
\* authorization or parse failure giving Task.
C15_TierOrder ==
    (probe.fn = "classify" /\ IsStr(probe.text)) =>
        LET local == IF probe.ggml.kind = "returns"
                     THEN _normalize_label(probe.ggml.reply, probe.text)
                     ELSE "Task"
            remote == IF probe.openai.kind = "content"
                      THEN _normalize_label(strip(probe.openai.reply), probe.text)
                      ELSE "Task"
        IN  /\ Called("ggml") <=> GGML_MODEL_PATH
            /\ Called("openai") <=> (OPENAI_API_KEY /\ local = "Task")
            /\ local # "Task" => (probe.out = local /\ probe.called = <<"ggml">>)
            /\ Called("openai") => probe.out = remote
            /\ (~Called("openai") /\ local = "Task") => probe.out = "Task"

\* the local tier answered Task, so the remote tier was asked and its label
\* was returned
C15_Witness ==
    /\ probe.fn = "classify" /\ IsStr(probe.text)
    /\ probe.ggml.kind = "returns" /\ probe.ggml.reply = TierReplies[3]
    /\ probe.openai.kind = "content"
    /\ probe.called = <<"ggml", "openai">>
    /\ probe.out = "Bug"
----------------------------------------------------------------------------
(* Progress of the background unit, checked under SpecIntakeFair *)

\* unit c ended with its row stored and its approval message requested
PersistedNotified(c) ==
    /\ cmd[c].pc = "done" /\ cmd[c].jira_key # None
    /\ Cardinality(RowsOf(c)) = 1
    /\ NoticesOf(c, "Ticket has been created") # {}

\* unit c ended with no row and its failure message requested
NotifiedFailure(c) ==
    /\ cmd[c].pc = "done" /\ cmd[c].jira_key = None
    /\ RowsOf(c) = {}
    /\ NoticesOf(c, "Failed to create Jira ticket") # {}

\* C16: every scheduled background unit ends either with its row stored and
\* the approval message requested or with no row and the failure message
\* requested, and no exception leaves the task: a create_jira_issue call
\* that raises is reported like one that returns no key.
C16_UnitReachesOutcome ==
    /\ \A c \in Cmds :
         (cmd[c].pc = "scheduled") ~> (PersistedNotified(c) \/ NotifiedFailure(c))
    /\ [](\A c \in Cmds : cmd[c].pc # "crashed")
----------------------------------------------------------------------------
(* Properties of overlapping actions, checked under SpecRace *)

----------------------------------------------------------------------------
(* Properties of the unit as a whole, checked under Spec *)

\* every request for a message made for command c, in any channel
AllNoticesOf(c) ==
    {p \in AllChannels \X (1..(MaxTickets + MaxActions + 1)) :
        /\ p[2] <= Len(sent[p[1]])
        /\ sent[p[1]][p[2]].fallback_user = UserOf(c)}

\* C21: the background unit of a /ticket command calls create_jira_issue at
\* most once, stores at most one row and requests at most one message,
\* whatever each step's outcome: the call is entered only from the
\* scheduled unit and never again, the tracker has issued exactly one key
\* per command that holds one, and a unit that ended, with a key, without
\* one or in an exception, takes no further step.
C21_NoRetry ==
    /\ [](\A c \in Cmds :
            /\ Cardinality(RowsOf(c)) <= 1
            /\ Cardinality(AllNoticesOf(c)) <= 1)
    /\ [](jira = Cardinality({c \in Cmds : cmd[c].jira_key # None}))
    /\ [][\A c \in Cmds :
            /\ (cmd[c].pc # "creating" /\ cmd'[c].pc = "creating")
                  => cmd[c].pc = "scheduled"
            /\ cmd[c].pc = "creating"
                  => cmd'[c].pc \in {"creating", "done", "crashed"}
            /\ cmd[c].pc \in {"done", "crashed"} =>
                  /\ cmd'[c] = cmd[c]
                  /\ RowsOf(c)' = RowsOf(c)
                  /\ AllNoticesOf(c)' = AllNoticesOf(c)]_vars

\* one unit ended in an exception and the other one with the failure
\* message; both were left at that while two actions were handled
C21_Witness ==
    /\ cmd[1].pc = "crashed"
    /\ cmd[2].pc = "done" /\ cmd[2].jira_key = None
    /\ Cardinality(AllNoticesOf(2)) = 1
    /\ AllNoticesOf(1) = {}
    /\ jira = 0 /\ store = <<>>
    /\ \A a \in Acts : act[a].pc = "done"
----------------------------------------------------------------------------
(* Properties of the stored rows, checked under SpecRecords *)

\* C22: every row's status is created, approved or rejected; a row is
\* inserted with status created; an existing row changes only in a step of
\* the action handler, so that no step of the background unit and no step
\* of the /ticket_status command changes one; and a row that is approved or
\* rejected is never created again.
C22_StatusLifecycle ==
    /\ [](\A i \in 1..Len(store) :
            store[i].status \in {"created", "approved", "rejected"})
    /\ [][/\ Len(store') >= Len(store)
          /\ \A i \in 1..Len(store') :
                i > Len(store) => store'[i].status = "created"
          /\ \A i \in 1..Len(store) :
                /\ store[i].status # "created" => store'[i].status # "created"
                /\ store'[i] # store[i] =>
                      \E a \in Acts :
                          /\ act[a].pc = "sending" /\ act'[a].pc = "done"
                          /\ act[a].log = i
          /\ (cmd' # cmd \/ qry' # qry) =>
                \A i \in 1..Len(store) : store'[i] = store[i]]_vars

\* the stored row was approved by an action, the unit of the /ticket command
\* has inserted a second row, created, and a status query was answered
C22_Witness ==
    /\ Len(store) = 2
    /\ store[1].status = "approved" /\ store[2].status = "created"
    /\ \E i \in 1..Len(sent["C1"]) :
         /\ sent["C1"][i].text = "Ticket has been approved"
         /\ sent["C1"][i].key = KeyOf(1)
    /\ \A a \in Acts : act[a].pc = "done"
    /\ cmd[1].pc = "done"
    /\ qry[1].pc = "done" /\ qry[1].called
----------------------------------------------------------------------------
(* Properties of the approval message's buttons, checked under Spec *)

\* the requests for an approval message, as channel and position
SuccessNotices ==
    {p \in AllChannels \X (1..(MaxTickets + MaxActions)) :
        /\ p[2] <= Len(sent[p[1]])
        /\ sent[p[1]][p[2]].text = "Ticket has been created"}

\* v is the value of a button of an approval message requested so far
OnControl(v) ==
    \E p \in SuccessNotices :
        \E j \in 1..Len(sent[p[1]][p[2]].blocks) :
            sent[p[1]][p[2]].blocks[j].value = v

\* C23: from the moment an approval message for key k is requested, the
\* store holds a committed row with ticket_id k and the message's approve
\* and reject buttons both carry k; no row is ever removed or given another
\* ticket_id; so an invocation of the action handler whose value is that of
\* a button of a requested approval message finds its row, and "ticket not
\* found" is answered only to an invocation whose lookup found no row.
C23_ControlsResolve ==
    /\ [](\A p \in SuccessNotices :
            LET m == sent[p[1]][p[2]]
            IN  /\ \E i \in 1..Len(store) :
                     /\ store[i].ticket_id = m.key
                     /\ store[i].jira_issue_key = m.key
                /\ Len(m.blocks) = 2
                /\ m.blocks[1] = [action_id |-> "approve_ticket", value |-> m.key]
                /\ m.blocks[2] = [action_id |-> "reject_ticket", value |-> m.key])
    /\ [][/\ Len(store') >= Len(store)
          /\ \A i \in 1..Len(store) : store'[i].ticket_id = store[i].ticket_id
          /\ \A a \in Acts :
                /\ (act[a].pc = "idle" /\ act'[a].pc = "not_found")
                      => ~OnControl(act'[a].ticket_id)
                /\ (act[a].pc = "idle" /\ act'[a].pc = "sending")
                      => store[act'[a].log].ticket_id = act'[a].ticket_id
                /\ (act[a].response # "ticket not found"
                      /\ act'[a].response = "ticket not found")
                      => act[a].pc = "not_found"]_vars

\* an invocation whose value no button carried was answered "ticket not
\* found"; the approval message for KAN-1 was requested and a click on its
\* reject button found the row
C23_Witness ==
    /\ act[1].response = "ticket not found"
    /\ OnControl(KeyOf(1))
    /\ act[2].pc = "sending" /\ act[2].ticket_id = KeyOf(1)
    /\ act[2].status = "rejected"
    /\ store[act[2].log].ticket_id = KeyOf(1)
----------------------------------------------------------------------------
(* Properties of the status messages, checked under SpecRace *)

\* the requests in channel C1 for a message announcing a status of key k
StatusNoticesOf(k) ==
    {i \in 1..Len(sent["C1"]) :
        /\ sent["C1"][i].key = k
        /\ sent["C1"][i].text \in {"Ticket has been approved",
                                   "Ticket has been rejected"}}

\* the status a message announces
Announced(m) ==
    IF m.text = "Ticket has been approved" THEN "approved" ELSE "rejected"

\* C24: whenever every invocation of the action handler has completed, the
\* status stored for key KAN-1 is the one announced by the last status
\* message requested for that key, however the invocations' steps were
\* interleaved.
C24_AnnouncedMatchesStored ==
    (ActionsQuiet /\ StatusNoticesOf(KeyOf(1)) # {}) =>
        LET last == CHOOSE i \in StatusNoticesOf(KeyOf(1)) :
                        \A j \in StatusNoticesOf(KeyOf(1)) : j <= i
        IN  store[1].status = Announced(sent["C1"][last])

====
